---- MODULE Spec2Model ----
(***************************************************************************)
(* Model of the cf-report-users plugin: the HTTP fetcher (simpleClient.Get) *)
(* seen from its caller, the paginated walker (simpleClient.List), and the  *)
(* two traversals built from it (reportUsers, reportBuildpacks).            *)
(*                                                                          *)
(* The program is single threaded.  Its state is the Go call stack (one     *)
(* frame per running List call and per running callback), the values the    *)
(* closures accumulate (allInfo, the buildpacks map, the table rows) and    *)
(* what has been written to the output.  The control-plane API is the       *)
(* environment: each Get either fails or is answered by a page, and the     *)
(* pages served so far are kept in `upstream`.                              *)
(***************************************************************************)
EXTENDS Integers, Sequences, FiniteSets, TLC

VARIABLES
    stack,            \* the call stack, innermost frame last
    ret,              \* "running", or what the outermost List call returned: "nil" or an error
    exit,             \* "none", or what the command function returned: "nil" or an error
    path,             \* the path the outermost List call was given
    upstream,         \* URL -> page served for it (the control plane, as revealed so far)
    nextURL,          \* the next URL the control plane has not used yet
    requests,         \* the URLs of the GET requests made, in order
    refetched,        \* TRUE once a URL was requested a second time (a cyclic chain)
    failure,          \* "none", or the first error raised: ErrGet or ErrCallback
    visited,          \* the resources the plain callback was invoked on, in order
    allInfo,          \* reportUsers: the line items accumulated
    out,              \* reportUsers: the documents written to the output
    args,             \* reportUsers: the options given on the command line
    buildpacks,       \* reportBuildpacks: the buildpacks map, GUID -> resource
    table,            \* reportBuildpacks: the rows appended to the table
    lookups,          \* reportBuildpacks: the GUIDs looked up in the map, in order
    rendered          \* reportBuildpacks: TRUE once the table was rendered

vars == <<stack, ret, exit, path, upstream, nextURL, requests, refetched, failure,
          visited, allInfo, out, args, buildpacks, table,
          lookups, rendered>>

----------------------------------------------------------------------------
(* Bounds of the model *)

\* a plain collection: at most this many pages name a further, new page
MaxChain == 2
\* a plain collection: at most this many resources are served in one run
MaxItems == 3
\* the tree of organizations: the control plane serves at most this many
\* units in one run, a unit being a resource, a page that names a further
\* page, or a resource that lacks its name or its links
MaxUnits == 4

----------------------------------------------------------------------------
(* URLs, resources and pages *)

\* the empty string, as a URL
NoURL == 0
\* "/v2/organizations", and the root of a plain collection
RootURL == 1

\* the names the resources of a plain collection may carry
Names == {"a", "b"}

\* the empty string, as the GUID of a buildpack
NoGUID == 0
\* the GUIDs of buildpacks an application may carry
Guids == {NoGUID, 1, 2}
\* the times, in hours, the control plane may return; 0 is the zero time
Times == {0, 10, 40}

\* the name of the i-th resource served of the tree of organizations
UniqueName(i) == <<"n1", "n2", "n3", "n4", "n5", "n6", "n7", "n8", "n9">>[i]

\* a resource all of whose fields have their zero value
ZeroResource ==
    [Name |-> "", Username |-> "", UsersURL |-> NoURL, ManagersURL |-> NoURL,
     BillingManagersURL |-> NoURL, AuditorsURL |-> NoURL, SpacesURL |-> NoURL,
     DevelopersURL |-> NoURL, AppsURL |-> NoURL, BuildpackGUID |-> NoGUID,
     Buildpack |-> "", Filename |-> "", Enabled |-> FALSE, UpdatedAt |-> 0,
     PackageUpdatedAt |-> 0]

Last(s) == s[Len(s)]
Pop(s) == SubSeq(s, 1, Len(s) - 1)
ReplaceTop(s, f) == [s EXCEPT ![Len(s)] = f]

\* the resources served so far, page after page
RECURSIVE AllServed(_)
AllServed(S) ==
    IF S = {} THEN <<>>
    ELSE LET u == CHOOSE x \in S : TRUE
         IN upstream[u].Resources \o AllServed(S \ {u})

\* the number of resources served so far
Served == Len(AllServed(DOMAIN upstream))

\* a resource of the tree that lacks its name (a user: its username), or, an
\* organization or a space, its links
Lacking(res) ==
    \/ res.Name = "" /\ res.Username = ""
    \/ /\ res.Name # "" /\ res.SpacesURL = NoURL /\ res.DevelopersURL = NoURL
       /\ res.Buildpack = "" /\ res.BuildpackGUID = NoGUID

\* the number of such resources served so far
Missing ==
    LET all == AllServed(DOMAIN upstream)
    IN Cardinality({i \in 1..Len(all) : Lacking(all[i])})

\* the number of pages served so far that carry a continuation reference
Continued == Cardinality({u \in DOMAIN upstream : upstream[u].NextURL # NoURL})

\* the kind of resource held by the collection a List call with callback f walks
KindOf(f) ==
    CASE f = "plain" -> "plain"
      [] f \in {"org", "bpOrg"} -> "org"
      [] f \in {"space", "bpSpace"} -> "space"
      [] f \in {"orgUser", "spaceUser"} -> "user"
      [] f = "bpApp" -> "app"

\* the URLs an organization / a space carries
URLsPer(kind) == CASE kind = "org" -> 5 [] kind = "space" -> 4 [] OTHER -> 0

\* what the control plane may choose for one resource of a kind: the name of
\* a plain resource; whether a resource of the tree is served in full,
\* without its name or without its links
Shapes(kind) ==
    CASE kind = "plain" -> Names
      [] kind = "user" -> {"full", "noname"}
      [] kind \in {"org", "space"} -> {"full", "noname", "nolinks"}
      [] kind = "app" -> [guid : Guids, pkg : Times]

\* json.Decode of one resource: the fields present are set, all others keep
\* their zero value.  b is the first of the URLs the resource may use, i its
\* number among the resources served.
Resource(kind, shape, b, i) ==
    LET name == IF shape = "noname" THEN "" ELSE UniqueName(i)
    IN CASE kind = "plain" -> [ZeroResource EXCEPT !.Name = shape]
         [] kind = "user" -> [ZeroResource EXCEPT !.Username = name]
         [] kind = "org" ->
              IF shape = "nolinks" THEN [ZeroResource EXCEPT !.Name = name]
              ELSE [ZeroResource EXCEPT !.Name = name, !.UsersURL = b,
                       !.ManagersURL = b + 1, !.BillingManagersURL = b + 2,
                       !.AuditorsURL = b + 3, !.SpacesURL = b + 4]
         [] kind = "space" ->
              IF shape = "nolinks" THEN [ZeroResource EXCEPT !.Name = name]
              ELSE [ZeroResource EXCEPT !.Name = name, !.DevelopersURL = b,
                       !.ManagersURL = b + 1, !.AuditorsURL = b + 2, !.AppsURL = b + 3]
         [] kind = "app" ->
              [ZeroResource EXCEPT !.Name = UniqueName(i), !.BuildpackGUID = shape.guid,
                  !.Buildpack = (IF shape.guid = NoGUID THEN "custom" ELSE ""),
                  !.PackageUpdatedAt = shape.pkg]

\* the units served so far
Units == Served + Continued + Missing

\* the units the control plane has left for the next page
Room(kind) ==
    IF kind = "plain" THEN MaxItems - Served ELSE MaxUnits - Units

\* the units the resources of a page take
Cost(kind, sh) ==
    IF kind \in {"plain", "app"} THEN Len(sh)
    ELSE Len(sh) + Cardinality({i \in 1..Len(sh) : sh[i] # "full"})

\* the choices for the resources of one page
PageShapes(kind) ==
    { sh \in UNION { [1..m -> Shapes(kind)] : m \in 0..Room(kind) } :
        Cost(kind, sh) <= Room(kind) }

\* the continuation references the page served for r may carry: none, a new
\* page, or (plain collections) a page already served or r itself
NextChoices(kind, r, sh, fresh) ==
    {NoURL}
    \cup (IF kind = "plain"
          THEN (IF Continued < MaxChain THEN {fresh} ELSE {}) \cup DOMAIN upstream \cup {r}
          ELSE (IF Cost(kind, sh) < Room(kind) THEN {fresh} ELSE {}))

\* the pages the control plane may serve for a URL r not requested before
Pages(kind, r) ==
    LET per == URLsPer(kind)
        page(shapes, nx) ==
            [NextURL |-> nx,
             Resources |-> [i \in 1..Len(shapes) |->
                 Resource(kind, shapes[i], nextURL + per * (i - 1), Served + i)]]
    IN UNION { { page(sh, nx) :
                   nx \in NextChoices(kind, r, sh, nextURL + per * Len(sh)) } :
               sh \in PageShapes(kind) }

\* the first URL not used once `page` has been served
UsedUpTo(kind, page) ==
    LET b == nextURL + URLsPer(kind) * Len(page.Resources)
    IN IF page.NextURL >= b THEN page.NextURL + 1 ELSE b

----------------------------------------------------------------------------
(* The call stack *)

\* the frame of a call List(r, f); org, space and role are the variables the
\* closure f captures
ListFrame(r, f, org, space, role) ==
    [fn |-> "List", r |-> r, f |-> f, pc |-> "loop", res |-> <<>>, NextURL |-> NoURL,
     idx |-> 0, org |-> org, space |-> space, role |-> role, k |-> 0]

\* the frame of a running callback of reportUsers: fn is "orgCallback" or
\* "spaceCallback", k the position in its table of roles
CallbackFrame(fn, org, space) ==
    [fn |-> fn, r |-> NoURL, f |-> "", pc |-> "roles", res |-> <<>>, NextURL |-> NoURL,
     idx |-> 0, org |-> org, space |-> space, role |-> "", k |-> 1]

\* the error a failed Get returns, and the error the plain callback returns
ErrGet == "bad status code"
ErrCallback == "callback error"

\* Resume, were the caller to go on whatever the call returned (the error
\* dropped)
ResumeSwallow(s, v) ==
    IF s = <<>> THEN [stack |-> <<>>, ret |-> v]
    ELSE LET top == Last(s)
         IN IF top.fn = "List"
            THEN [stack |-> ReplaceTop(s, [top EXCEPT !.idx = top.idx + 1]),
                  ret |-> "running"]
            ELSE [stack |-> ReplaceTop(s, [top EXCEPT !.k = top.k + 1]),
                  ret |-> "running"]

\* A call returns v ("nil" or an error) to the frame on top of s, its caller:
\*   List (the callback f returned): an error is returned at once, otherwise
\*     the range loop goes on with the next resource;
\*   orgCallback, spaceCallback (the List call of a role returned): an error
\*     is returned at once, otherwise the loop goes on with the next role;
\*   no caller left: v is what the outermost List call returned.
RECURSIVE Resume(_, _)
Resume(s, v) ==
    IF s = <<>> THEN [stack |-> <<>>, ret |-> v]
    ELSE LET top == Last(s)
         IN IF v # "nil"
            THEN Resume(Pop(s), v)
            ELSE IF top.fn = "List"
                 THEN [stack |-> ReplaceTop(s, [top EXCEPT !.idx = top.idx + 1]),
                       ret |-> "running"]
                 ELSE [stack |-> ReplaceTop(s, [top EXCEPT !.k = top.k + 1]),
                       ret |-> "running"]

Top == Last(stack)
InList == stack # <<>> /\ Top.fn = "List"

\* the variables of the two reports
userVars == <<allInfo, out, args, exit>>
bpVars == <<buildpacks, table, lookups, rendered>>

----------------------------------------------------------------------------
(* simpleClient.List *)

\* for r != "" fails: return nil
ListReturn ==
    /\ InList /\ Top.pc = "loop" /\ Top.r = NoURL
    /\ LET c == Resume(Pop(stack), "nil")
       IN stack' = c.stack /\ ret' = c.ret
    /\ UNCHANGED <<path, upstream, nextURL, requests, refetched, failure, visited,
                   userVars, bpVars>>

\* the requests made, once the request for r is added.  The first request
\* that repeats a URL shows the chain to be cyclic; it is recorded, and from
\* then on the records of requests and visits are left as they are.
Requested(r) == IF refetched THEN requests ELSE Append(requests, r)

\* err := sc.Get(r, &res): the request fails (transport error, status other
\* than 200, undecodable body) and List returns the error, or a page is decoded
ListGet ==
    /\ InList /\ Top.pc = "loop" /\ Top.r # NoURL
    /\ requests' = Requested(Top.r)
    /\ refetched' = (refetched \/ Top.r \in DOMAIN upstream)
    /\ \/ /\ LET c == Resume(Pop(stack), ErrGet)
             IN stack' = c.stack /\ ret' = c.ret
          /\ failure' = ErrGet
          /\ UNCHANGED <<upstream, nextURL>>
       \/ /\ \E page \in (IF Top.r \in DOMAIN upstream THEN {upstream[Top.r]}
                          ELSE Pages(KindOf(Top.f), Top.r)) :
                /\ upstream' = (IF Top.r \in DOMAIN upstream THEN upstream
                                ELSE upstream @@ (Top.r :> page))
                /\ nextURL' = (IF Top.r \in DOMAIN upstream THEN nextURL
                               ELSE UsedUpTo(KindOf(Top.f), page))
                /\ stack' = ReplaceTop(stack,
                       [Top EXCEPT !.pc = "range", !.res = page.Resources,
                                   !.NextURL = page.NextURL, !.idx = 1])
          /\ UNCHANGED <<ret, failure>>
    /\ UNCHANGED <<path, visited, userVars, bpVars>>

\* ListAdvance, were it to leave the loop after the first page (next_url
\* not followed)
ListAdvanceStop ==
    /\ InList /\ Top.pc = "range" /\ Top.idx > Len(Top.res)
    /\ stack' = ReplaceTop(stack, [Top EXCEPT !.pc = "loop", !.r = NoURL])
    /\ UNCHANGED <<ret, path, upstream, nextURL, requests, refetched, failure, visited,
                   userVars, bpVars>>

\* ListAdvance, were it to take over next_url only from a page that holds
\* resources
ListAdvanceStay ==
    /\ InList /\ Top.pc = "range" /\ Top.idx > Len(Top.res)
    /\ stack' = ReplaceTop(stack,
           [Top EXCEPT !.pc = "loop",
                       !.r = IF Top.res = <<>> THEN Top.r ELSE Top.NextURL])
    /\ UNCHANGED <<ret, path, upstream, nextURL, requests, refetched, failure, visited,
                   userVars, bpVars>>

\* ListAdvance, were the walker to stop after two pages
ListAdvanceLimit ==
    /\ InList /\ Top.pc = "range" /\ Top.idx > Len(Top.res)
    /\ stack' = ReplaceTop(stack,
           [Top EXCEPT !.pc = "loop",
                       !.r = IF Len(requests) >= 2 THEN NoURL ELSE Top.NextURL])
    /\ UNCHANGED <<ret, path, upstream, nextURL, requests, refetched, failure, visited,
                   userVars, bpVars>>

\* the range loop is over: r = res.NextURL
ListAdvance ==
    /\ InList /\ Top.pc = "range" /\ Top.idx > Len(Top.res)
    /\ stack' = ReplaceTop(stack, [Top EXCEPT !.pc = "loop", !.r = Top.NextURL])
    /\ UNCHANGED <<ret, path, upstream, nextURL, requests, refetched, failure, visited,
                   userVars, bpVars>>

\* TRUE when List is about to call f(rr) with callback f
Calling(f) ==
    /\ InList /\ Top.pc = "range" /\ Top.idx <= Len(Top.res)
    /\ Top.f = f

\* the resource rr of that call
Current == Top.res[Top.idx]

\* the resources visited, once rr is added (see Requested)
Visit(rr) == IF refetched THEN visited ELSE Append(visited, rr)

\* err = f(rr) for a callback that does nothing but succeed or fail
PlainCallback ==
    /\ Calling("plain")
    /\ visited' = Visit(Current)
    /\ \E v \in {"nil", ErrCallback} :
          /\ LET c == Resume(stack, v)
             IN stack' = c.stack /\ ret' = c.ret
          /\ failure' = (IF v = "nil" THEN failure ELSE v)
    /\ UNCHANGED <<path, upstream, nextURL, requests, refetched, userVars, bpVars>>

----------------------------------------------------------------------------
(* The walker on its own: one List call with a callback that may fail *)

InitCommon ==
    /\ ret = "running" /\ exit = "none"
    /\ upstream = << >> /\ nextURL = RootURL + 1
    /\ requests = <<>> /\ refetched = FALSE /\ failure = "none" /\ visited = <<>>
    /\ allInfo = <<>> /\ out = <<>>
    /\ buildpacks = << >> /\ table = <<>> /\ lookups = <<>> /\ rendered = FALSE

InitList ==
    /\ InitCommon
    /\ path \in {NoURL, RootURL}
    /\ stack = <<ListFrame(path, "plain", ZeroResource, ZeroResource, "")>>
    /\ args = {}

NextList == ListReturn \/ ListGet \/ ListAdvance \/ PlainCallback

SpecList == InitList /\ [][NextList]_vars

\* the walker always takes its next step: nothing but a stalled request
\* stops a running List call
SpecListFair == SpecList /\ WF_vars(NextList)

----------------------------------------------------------------------------
(* The report-users command *)

\* fs.BoolVar(&orgUsers, "org-users", false, ...): set only when given
includeOrgUsers == "-org-users" \in args

\* OrgRoles, were OrgUser done whatever the option
OrgRolesAlways(org) ==
    << [Role |-> "OrgUser", URL |-> org.UsersURL, Do |-> TRUE],
       [Role |-> "OrgManager", URL |-> org.ManagersURL, Do |-> TRUE],
       [Role |-> "OrgBillingManager", URL |-> org.BillingManagersURL, Do |-> TRUE],
       [Role |-> "OrgAuditor", URL |-> org.AuditorsURL, Do |-> TRUE] >>

\* OrgRoles, were the auditors listed before the managers
OrgRolesSwapped(org) ==
    << [Role |-> "OrgUser", URL |-> org.UsersURL, Do |-> includeOrgUsers],
       [Role |-> "OrgAuditor", URL |-> org.AuditorsURL, Do |-> TRUE],
       [Role |-> "OrgManager", URL |-> org.ManagersURL, Do |-> TRUE],
       [Role |-> "OrgBillingManager", URL |-> org.BillingManagersURL, Do |-> TRUE] >>

\* the table of organization-level roles of the callback on organizations
OrgRoles(org) ==
    << [Role |-> "OrgUser", URL |-> org.UsersURL, Do |-> includeOrgUsers],
       [Role |-> "OrgManager", URL |-> org.ManagersURL, Do |-> TRUE],
       [Role |-> "OrgBillingManager", URL |-> org.BillingManagersURL, Do |-> TRUE],
       [Role |-> "OrgAuditor", URL |-> org.AuditorsURL, Do |-> TRUE] >>

\* the table of space-level roles of the callback on spaces
SpaceRoles(space) ==
    << [Role |-> "SpaceDeveloper", URL |-> space.DevelopersURL],
       [Role |-> "SpaceManager", URL |-> space.ManagersURL],
       [Role |-> "SpaceAuditor", URL |-> space.AuditorsURL] >>

\* &userInfoLineItem{...}; Space keeps its zero value for an organization role
userInfoLineItem(organization, space, username, role) ==
    [Organization |-> organization, Space |-> space, Username |-> username,
     Role |-> role]

InCallback(fn) == stack # <<>> /\ Top.fn = fn

walkVars == <<path, upstream, nextURL, requests, refetched, failure, visited>>

\* the callback on organizations is called
OrgCallback ==
    /\ Calling("org")
    /\ stack' = Append(stack, CallbackFrame("orgCallback", Current, ZeroResource))
    /\ UNCHANGED <<ret, walkVars, userVars, bpVars>>

\* one turn of its loop over the organization roles: a role not to be done is
\* skipped, the user collection of any other is walked
OrgRoleLoop ==
    /\ InCallback("orgCallback") /\ Top.k <= Len(OrgRoles(Top.org))
    /\ LET orgRole == OrgRoles(Top.org)[Top.k]
       IN IF ~orgRole.Do
          THEN stack' = ReplaceTop(stack, [Top EXCEPT !.k = Top.k + 1])
          ELSE stack' = Append(stack,
                   ListFrame(orgRole.URL, "orgUser", Top.org, ZeroResource, orgRole.Role))
    /\ UNCHANGED <<ret, walkVars, userVars, bpVars>>

\* the callback on the users of an organization role appends a line item
OrgUserCallback ==
    /\ Calling("orgUser")
    /\ allInfo' = Append(allInfo,
           userInfoLineItem(Top.org.Name, "", Current.Username, Top.role))
    /\ LET c == Resume(stack, "nil")
       IN stack' = c.stack /\ ret' = c.ret
    /\ UNCHANGED <<walkVars, out, args, exit, bpVars>>

\* return client.List(org.Entity.SpacesURL, ...): the callback on
\* organizations ends in the walk of the organization's spaces
OrgSpaces ==
    /\ InCallback("orgCallback") /\ Top.k > Len(OrgRoles(Top.org))
    /\ stack' = ReplaceTop(stack,
           ListFrame(Top.org.SpacesURL, "space", Top.org, ZeroResource, ""))
    /\ UNCHANGED <<ret, walkVars, userVars, bpVars>>

\* the callback on spaces is called
SpaceCallback ==
    /\ Calling("space")
    /\ stack' = Append(stack, CallbackFrame("spaceCallback", Top.org, Current))
    /\ UNCHANGED <<ret, walkVars, userVars, bpVars>>

\* one turn of its loop over the space roles
SpaceRoleLoop ==
    /\ InCallback("spaceCallback") /\ Top.k <= Len(SpaceRoles(Top.space))
    /\ LET spaceRole == SpaceRoles(Top.space)[Top.k]
       IN stack' = Append(stack,
              ListFrame(spaceRole.URL, "spaceUser", Top.org, Top.space, spaceRole.Role))
    /\ UNCHANGED <<ret, walkVars, userVars, bpVars>>

\* the callback on the users of a space role appends a line item
SpaceUserCallback ==
    /\ Calling("spaceUser")
    /\ allInfo' = Append(allInfo,
           userInfoLineItem(Top.org.Name, Top.space.Name, Current.Username, Top.role))
    /\ LET c == Resume(stack, "nil")
       IN stack' = c.stack /\ ret' = c.ret
    /\ UNCHANGED <<walkVars, out, args, exit, bpVars>>

\* the loop over the space roles is over: return nil
SpaceReturn ==
    /\ InCallback("spaceCallback") /\ Top.k > Len(SpaceRoles(Top.space))
    /\ LET c == Resume(Pop(stack), "nil")
       IN stack' = c.stack /\ ret' = c.ret
    /\ UNCHANGED <<walkVars, userVars, bpVars>>

\* json.NewEncoder(out).Encode(allInfo): an array of objects, the space left
\* out of an object when it is empty (omitempty)
EncodeJSON(items) ==
    [i \in 1..Len(items) |->
        IF items[i].Space = ""
        THEN [organization |-> items[i].Organization, username |-> items[i].Username,
              role |-> items[i].Role]
        ELSE [organization |-> items[i].Organization, space |-> items[i].Space,
              username |-> items[i].Username, role |-> items[i].Role]]

\* the table: its header, then one row per line item
RenderTable(items) ==
    <<<<"Organization", "Space", "Username", "Role">>>> \o
    [i \in 1..Len(items) |->
        <<items[i].Organization, items[i].Space, items[i].Username, items[i].Role>>]

\* what reportUsers writes for the line items
Output(items, outputJSON) ==
    IF outputJSON THEN [format |-> "json", body |-> EncodeJSON(items)]
    ELSE [format |-> "table", body |-> RenderTable(items)]

\* ReportUsersReturn, were the report written whatever List returned
ReportUsersReturnPartial ==
    /\ stack = <<>> /\ ret # "running" /\ exit = "none"
    /\ \E outputJSON \in BOOLEAN :
          exit' = ret /\ out' = Append(out, Output(allInfo, outputJSON))
    /\ UNCHANGED <<stack, ret, walkVars, allInfo, args, bpVars>>

\* the outermost List call has returned: its error is returned, or the report
\* is written.  The output-json option is read nowhere else, and is drawn
\* here.
ReportUsersReturn ==
    /\ stack = <<>> /\ ret # "running" /\ exit = "none"
    /\ \E outputJSON \in BOOLEAN :
          IF ret # "nil"
          THEN exit' = ret /\ out' = out
          ELSE exit' = "nil" /\ out' = Append(out, Output(allInfo, outputJSON))
    /\ UNCHANGED <<stack, ret, walkVars, allInfo, args, bpVars>>

InitUsers ==
    /\ InitCommon
    /\ args \in SUBSET {"-org-users"}
    /\ path = RootURL
    /\ stack = <<ListFrame(path, "org", ZeroResource, ZeroResource, "")>>

NextUsers ==
    \/ ListReturn \/ ListGet \/ ListAdvance
    \/ OrgCallback \/ OrgRoleLoop \/ OrgUserCallback \/ OrgSpaces
    \/ SpaceCallback \/ SpaceRoleLoop \/ SpaceUserCallback \/ SpaceReturn
    \/ ReportUsersReturn

SpecUsers == InitUsers /\ [][NextUsers]_vars

----------------------------------------------------------------------------
(* The report-buildpacks command *)

\* fmt.Sprintf("/v2/buildpacks/%s", guid): a path of its own for each GUID,
\* the empty one included
BuildpackURL(guid) == 0 - (guid + 1)

\* the callback on organizations: return client.List(org.Entity.SpacesURL, ...)
BpOrgCallback ==
    /\ Calling("bpOrg")
    /\ stack' = Append(stack,
           ListFrame(Current.SpacesURL, "bpSpace", Current, ZeroResource, ""))
    /\ UNCHANGED <<ret, walkVars, userVars, bpVars>>

\* the callback on spaces: return client.List(space.Entity.AppsURL, ...)
BpSpaceCallback ==
    /\ Calling("bpSpace")
    /\ stack' = Append(stack, ListFrame(Current.AppsURL, "bpApp", Top.org, Current, ""))
    /\ UNCHANGED <<ret, walkVars, userVars, bpVars>>

\* what client.Get(.., &bbp) may leave in bbp for an application: on success
\* a decoded buildpack; on failure whatever was decoded before the error,
\* with Filename and Enabled overwritten
Fetched(app) ==
    { [ZeroResource EXCEPT !.Filename = "buildpack.zip", !.Enabled = e, !.UpdatedAt = t] :
        e \in BOOLEAN, t \in Times }
FetchFailed(app) ==
    { [ZeroResource EXCEPT !.Filename = app.Buildpack, !.Enabled = FALSE, !.UpdatedAt = t] :
        t \in Times }

\* math.Ceil(d.Hours() / 24.0), for d a whole number of hours
CeilDays(hours) == (hours + 23) \div 24

\* the "out of date" column of the row of an application
OutOfDate(bp, app) ==
    IF bp.UpdatedAt > app.PackageUpdatedAt
    THEN <<CeilDays(bp.UpdatedAt - app.PackageUpdatedAt), "days">>
    ELSE IF ~bp.Enabled THEN <<"Needs attention">> ELSE <<>>

\* the row appended for an application
Row(org, space, app, bp) ==
    <<org.Name, space.Name, app.Name, app.Buildpack, OutOfDate(bp, app)>>

\* BpAppCallback, were the buildpack fetched and stored for every application
\* (the map not consulted)
BpAppCallbackRefetch ==
    /\ Calling("bpApp")
    /\ LET app == Current
           guid == app.BuildpackGUID
       IN /\ lookups' = Append(lookups, guid)
          /\ requests' = Append(requests, BuildpackURL(guid))
          /\ \E bbp \in Fetched(app) \cup FetchFailed(app) :
                /\ buildpacks' = [g \in DOMAIN buildpacks \cup {guid} |->
                                     IF g = guid THEN bbp ELSE buildpacks[g]]
                /\ table' = Append(table, Row(Top.org, Top.space, app, bbp))
    /\ LET c == Resume(stack, "nil")
       IN stack' = c.stack /\ ret' = c.ret
    /\ UNCHANGED <<path, upstream, nextURL, refetched, failure, visited, userVars,
                   rendered>>

\* BpAppCallback, were the result of a failed fetch used for the row but not
\* put into the map
BpAppCallbackForgetFailure ==
    /\ Calling("bpApp")
    /\ LET app == Current
           guid == app.BuildpackGUID
       IN /\ lookups' = Append(lookups, guid)
          /\ IF guid \in DOMAIN buildpacks
             THEN /\ table' = Append(table, Row(Top.org, Top.space, app, buildpacks[guid]))
                  /\ UNCHANGED <<buildpacks, requests>>
             ELSE /\ requests' = Append(requests, BuildpackURL(guid))
                  /\ \/ \E bbp \in Fetched(app) :
                           /\ buildpacks' = buildpacks @@ (guid :> bbp)
                           /\ table' = Append(table, Row(Top.org, Top.space, app, bbp))
                     \/ \E bbp \in FetchFailed(app) :
                           /\ buildpacks' = buildpacks
                           /\ table' = Append(table, Row(Top.org, Top.space, app, bbp))
    /\ LET c == Resume(stack, "nil")
       IN stack' = c.stack /\ ret' = c.ret
    /\ UNCHANGED <<path, upstream, nextURL, refetched, failure, visited, userVars,
                   rendered>>

\* the callback on applications: the buildpack of the application is taken
\* from the map, or fetched and put into the map when it is not there, and
\* a row is appended; the callback returns nil whatever the fetch did
BpAppCallback ==
    /\ Calling("bpApp")
    /\ LET app == Current
           guid == app.BuildpackGUID
       IN /\ lookups' = Append(lookups, guid)
          /\ IF guid \in DOMAIN buildpacks
             THEN /\ table' = Append(table, Row(Top.org, Top.space, app, buildpacks[guid]))
                  /\ UNCHANGED <<buildpacks, requests>>
             ELSE /\ requests' = Append(requests, BuildpackURL(guid))
                  /\ \E bbp \in Fetched(app) \cup FetchFailed(app) :
                        /\ buildpacks' = buildpacks @@ (guid :> bbp)
                        /\ table' = Append(table, Row(Top.org, Top.space, app, bbp))
    /\ LET c == Resume(stack, "nil")
       IN stack' = c.stack /\ ret' = c.ret
    /\ UNCHANGED <<path, upstream, nextURL, refetched, failure, visited, userVars,
                   rendered>>

\* the outermost List call has returned: its error is returned, or the table
\* is rendered
ReportBuildpacksReturn ==
    /\ stack = <<>> /\ ret # "running" /\ exit = "none"
    /\ exit' = ret
    /\ rendered' = (ret = "nil")
    /\ UNCHANGED <<stack, ret, walkVars, allInfo, out, args, buildpacks, table, lookups>>

InitBuildpacks ==
    /\ InitCommon
    /\ args = {}
    /\ path = RootURL
    /\ stack = <<ListFrame(path, "bpOrg", ZeroResource, ZeroResource, "")>>

NextBuildpacks ==
    \/ ListReturn \/ ListGet \/ ListAdvance
    \/ BpOrgCallback \/ BpSpaceCallback \/ BpAppCallback
    \/ ReportBuildpacksReturn

SpecBuildpacks == InitBuildpacks /\ [][NextBuildpacks]_vars

----------------------------------------------------------------------------
(* Properties of the walker *)

IsPrefix(a, b) == Len(a) <= Len(b) /\ a = SubSeq(b, 1, Len(a))

\* the resources of the chain of pages that starts at u, in chain order
RECURSIVE ChainItems(_, _)
ChainItems(u, seen) ==
    IF u = NoURL \/ u \notin DOMAIN upstream \/ u \in seen THEN <<>>
    ELSE upstream[u].Resources \o ChainItems(upstream[u].NextURL, seen \cup {u})

\* the URLs of the pages of that chain, in chain order
RECURSIVE ChainURLs(_, _)
ChainURLs(u, seen) ==
    IF u = NoURL \/ u \notin DOMAIN upstream \/ u \in seen THEN <<>>
    ELSE <<u>> \o ChainURLs(upstream[u].NextURL, seen \cup {u})

\* the chain that starts at u is finite and served to its end: following the
\* continuation references leads to an empty one
RECURSIVE ChainEnds(_, _)
ChainEnds(u, seen) ==
    IF u = NoURL THEN TRUE
    ELSE IF u \notin DOMAIN upstream \/ u \in seen THEN FALSE
    ELSE ChainEnds(upstream[u].NextURL, seen \cup {u})

\* some page fetched so far carries an empty continuation reference
EmptyNextFetched == \E u \in DOMAIN upstream : upstream[u].NextURL = NoURL

\* C1: when every fetch and every callback succeeds, List returns after it
\* has requested each page of the chain once, in chain order, and has invoked
\* the callback on exactly the resources of those pages, in the order the
\* pages list them (nothing skipped, repeated, reordered or deduplicated);
\* until then the visits are a prefix of that sequence.
C1_VisitsChainInOrder ==
    /\ ~refetched => IsPrefix(visited, ChainItems(path, {}))
    /\ ret = "nil" =>
          /\ ChainEnds(path, {})
          /\ visited = ChainItems(path, {})
          /\ requests = ChainURLs(path, {})

\* C1 witness: a chain of three pages, one of them empty, holding three
\* resources two of which are equal, has been walked to its end
C1_Witness ==
    /\ ret = "nil" /\ Len(requests) = 3 /\ Len(visited) = 3
    /\ \E u \in DOMAIN upstream : upstream[u].Resources = <<>>
    /\ \E i, j \in 1..3 : i # j /\ visited[i] = visited[j]

\* C2: once the callback has returned an error, List has returned that very
\* error, the failing resource is the last one visited, the page that holds
\* it is the last one requested, and no visit and no request follows.
C2_CallbackErrorStops ==
    /\ [](failure = ErrCallback =>
            /\ ret = ErrCallback /\ stack = <<>>
            /\ ~refetched =>
                  /\ visited # <<>>
                  /\ IsPrefix(visited, ChainItems(path, {}))
                  /\ requests = ChainURLs(path, {}))
    /\ [][failure = ErrCallback => visited' = visited /\ requests' = requests]_vars

\* C2 witness: the callback failed on the second resource visited, which is
\* not the last of its page, and that page names a further page
C2_Witness ==
    /\ failure = ErrCallback /\ Len(visited) = 2 /\ requests # <<>>
    /\ upstream[Last(requests)].NextURL # NoURL
    /\ Len(upstream[Last(requests)].Resources) = 2
    /\ Len(requests) = 2

\* the first page is empty and carries no continuation reference
FirstPageEmptyAndLast ==
    /\ path # NoURL /\ path \in DOMAIN upstream
    /\ upstream[path] = [NextURL |-> NoURL, Resources |-> <<>>]

\* C6: a List call on a non-empty path whose first page has no resources and
\* an empty next_url makes one request, invokes the callback on nothing and,
\* once it has returned, has returned nil.
C6_EmptyLastPage ==
    FirstPageEmptyAndLast =>
        /\ requests = <<path>> /\ visited = <<>>
        /\ ret \in {"running", "nil"}
        /\ stack = <<>> => ret = "nil"

\* C6 witness: such a call has returned
C6_Witness == FirstPageEmptyAndLast /\ stack = <<>> /\ ret = "nil"

\* C7 as stated: List returns nil only if some fetched page carries an
\* empty next_url.
C7_Original == ret = "nil" => EmptyNextFetched

\* C7, amended: List returns nil if and only if it was given an empty path or
\* some fetched page carries an empty next_url.  Only if: when it has
\* returned nil, the path was empty (and nothing was requested) or the last
\* page requested carries an empty next_url; and once such a page is
\* fetched no further request is made.  If: from then on, unless a callback
\* fails, it does return nil.  Otherwise, unless a fetch or a callback
\* fails, it goes on making requests forever.
C7_EmptyNextOrEmptyPath ==
    /\ [](ret = "nil" =>
            \/ path = NoURL /\ requests = <<>>
            \/ /\ requests # <<>>
               /\ Last(requests) \in DOMAIN upstream
               /\ upstream[Last(requests)].NextURL = NoURL)
    /\ [][EmptyNextFetched => requests' = requests /\ upstream' = upstream]_vars
    /\ ((path = NoURL \/ EmptyNextFetched) ~> (ret = "nil" \/ failure # "none"))
    /\ ([]<><<ListGet>>_vars \/ <>(path = NoURL \/ EmptyNextFetched \/ failure # "none"))

\* C7 witness: the chain is cyclic and the walker has gone round it and is
\* still running
C7_Witness ==
    /\ refetched /\ ret = "running" /\ ~EmptyNextFetched /\ failure = "none"
    /\ Cardinality(DOMAIN upstream) = 3

----------------------------------------------------------------------------
(* Properties of the report-users command *)

\* the line items of the users of the collection at url, in upstream order
RoleItems(organization, space, url, role) ==
    LET users == ChainItems(url, {})
    IN [i \in 1..Len(users) |->
           [Organization |-> organization, Space |-> space,
            Username |-> users[i].Username, Role |-> role]]

\* the line items of the spaces of an organization from the i-th on
RECURSIVE SpaceItems(_, _, _)
SpaceItems(org, spaces, i) ==
    IF i > Len(spaces) THEN <<>>
    ELSE RoleItems(org.Name, spaces[i].Name, spaces[i].DevelopersURL, "SpaceDeveloper")
         \o RoleItems(org.Name, spaces[i].Name, spaces[i].ManagersURL, "SpaceManager")
         \o RoleItems(org.Name, spaces[i].Name, spaces[i].AuditorsURL, "SpaceAuditor")
         \o SpaceItems(org, spaces, i + 1)

\* the line items of the organizations from the i-th on
RECURSIVE OrgItems(_, _, _)
OrgItems(orgs, i, withOrgUsers) ==
    IF i > Len(orgs) THEN <<>>
    ELSE (IF withOrgUsers
          THEN RoleItems(orgs[i].Name, "", orgs[i].UsersURL, "OrgUser") ELSE <<>>)
         \o RoleItems(orgs[i].Name, "", orgs[i].ManagersURL, "OrgManager")
         \o RoleItems(orgs[i].Name, "", orgs[i].BillingManagersURL, "OrgBillingManager")
         \o RoleItems(orgs[i].Name, "", orgs[i].AuditorsURL, "OrgAuditor")
         \o SpaceItems(orgs[i], ChainItems(orgs[i].SpacesURL, {}), 1)
         \o OrgItems(orgs, i + 1, withOrgUsers)

\* the organizations served, in upstream order
Organizations == ChainItems(RootURL, {})

\* the report the control plane's answers call for
Expected(withOrgUsers) == OrgItems(Organizations, 1, withOrgUsers)

\* the URLs requested
Requests == {requests[i] : i \in 1..Len(requests)}

\* C3: once a Get has failed, at whatever depth, every List call has
\* returned its error, reportUsers returns that error and nothing else, no
\* request follows and nothing is or has been written, whatever line items
\* were accumulated.
C3_FetchFailureAborts ==
    /\ [](failure = ErrGet =>
            /\ stack = <<>> /\ ret = ErrGet
            /\ exit \in {"none", ErrGet}
            /\ out = <<>>)
    /\ [][failure = ErrGet => requests' = requests /\ out' = out]_vars

\* C3 witness: reportUsers has returned the error of a request for a later
\* page, made when line items had been accumulated
C3_Witness ==
    /\ exit = ErrGet /\ allInfo # <<>> /\ requests # <<>>
    /\ \E u \in DOMAIN upstream : upstream[u].NextURL = Last(requests)

\* C4: without org-users, the line items are at any time a prefix of, and
\* when reportUsers has returned nil are, those of the organizations in
\* upstream order: for each its OrgManager, OrgBillingManager and OrgAuditor
\* users, then for each of its spaces in upstream order the space's
\* SpaceDeveloper, SpaceManager and SpaceAuditor users; and they are what is
\* written, in that order.
C4_ReportOrder ==
    ~includeOrgUsers =>
        /\ IsPrefix(allInfo, Expected(FALSE))
        /\ exit = "nil" =>
              /\ allInfo = Expected(FALSE)
              /\ out \in {<<Output(Expected(FALSE), j)>> : j \in BOOLEAN}

\* C4 witness: a report of an organization-level line item followed by a
\* space-level line item has been written
C4_Witness ==
    /\ ~includeOrgUsers /\ exit = "nil" /\ Len(allInfo) = 2
    /\ allInfo[1].Role = "OrgManager" /\ allInfo[1].Space = ""
    /\ allInfo[2].Role = "SpaceDeveloper" /\ allInfo[2].Space # ""
    /\ allInfo[1].Organization = allInfo[2].Organization

\* the line items of s that have the given role
RECURSIVE WithRole(_, _)
WithRole(s, role) ==
    IF s = <<>> THEN <<>>
    ELSE (IF Head(s).Role = role THEN <<Head(s)>> ELSE <<>>) \o WithRole(Tail(s), role)

\* the OrgUser line items the control plane's answers call for
RECURSIVE OrgUserItems(_, _)
OrgUserItems(orgs, i) ==
    IF i > Len(orgs) THEN <<>>
    ELSE RoleItems(orgs[i].Name, "", orgs[i].UsersURL, "OrgUser")
         \o OrgUserItems(orgs, i + 1)

\* C5: without the org-users option (the default) no users_url of an
\* organization is ever requested and no line item has the role OrgUser; with
\* it, when reportUsers has returned nil, the users_url collection of every
\* organization has been requested and the OrgUser line items are the users
\* of those collections, organization after organization.
C5_OrgUsersOptional ==
    /\ ~includeOrgUsers =>
          /\ \A i \in 1..Len(allInfo) : allInfo[i].Role # "OrgUser"
          /\ \A i \in 1..Len(Organizations) :
                Organizations[i].UsersURL \notin Requests
    /\ includeOrgUsers /\ exit = "nil" =>
          /\ \A i \in 1..Len(Organizations) :
                Organizations[i].UsersURL # NoURL =>
                    Organizations[i].UsersURL \in Requests
          /\ WithRole(allInfo, "OrgUser") = OrgUserItems(Organizations, 1)
          /\ allInfo = Expected(TRUE)

\* C5 witness: with the option, a report with an OrgUser line item and
\* another line item has been written
C5_Witness ==
    /\ includeOrgUsers /\ exit = "nil" /\ out # <<>>
    /\ \E i, j \in 1..Len(allInfo) :
          allInfo[i].Role = "OrgUser" /\ allInfo[j].Role # "OrgUser"

\* C8: every line item has a non-empty Organization and a non-empty Username.
C8_NonEmptyOrganizationAndUsername ==
    \A i \in 1..Len(allInfo) :
        allInfo[i].Organization # "" /\ allInfo[i].Username # ""

\* C9: every line item whose Space is empty has an organization-level role.
C9_SpaceEmptyOnlyForOrgRoles ==
    \A i \in 1..Len(allInfo) :
        allInfo[i].Space = "" =>
            allInfo[i].Role \in {"OrgUser", "OrgManager", "OrgBillingManager", "OrgAuditor"}

----------------------------------------------------------------------------
(* Properties of the report-buildpacks command *)

\* the GUIDs looked up so far
LookedUp == {lookups[i] : i \in 1..Len(lookups)}

RECURSIVE Count(_, _)
Count(s, x) ==
    IF s = <<>> THEN 0 ELSE (IF Head(s) = x THEN 1 ELSE 0) + Count(Tail(s), x)

\* the applications served so far
Applications ==
    LET all == AllServed(DOMAIN upstream)
    IN {all[i] : i \in {j \in 1..Len(all) :
                           all[j].Buildpack # "" \/ all[j].BuildpackGUID # NoGUID}}

\* the application the i-th row was appended for
AppOfRow(i) == CHOOSE app \in Applications : app.Name = table[i][3]

\* C11: each GUID looked up, the empty one included, is requested from
\* /v2/buildpacks/<guid> exactly once, however many applications carry it;
\* the row of every application is made from the entry its GUID has in the
\* map, which is what the first lookup of that GUID left there, fetched or
\* not; and the lookups raise no error: every application looked up has its
\* row, the traversal stops only when a List request fails, and when it has
\* returned nil every application served has a row.
C11_FetchedOncePerGUID ==
    /\ \A g \in Guids :
          Count(requests, BuildpackURL(g)) = (IF g \in LookedUp THEN 1 ELSE 0)
    /\ Len(table) = Len(lookups)
    /\ \A i \in 1..Len(table) :
          /\ lookups[i] = AppOfRow(i).BuildpackGUID
          /\ lookups[i] \in DOMAIN buildpacks
          /\ table[i] = <<table[i][1], table[i][2], AppOfRow(i).Name,
                          AppOfRow(i).Buildpack,
                          OutOfDate(buildpacks[lookups[i]], AppOfRow(i))>>
    /\ failure = "none" => ret \in {"running", "nil"}
    /\ exit = "nil" => Len(table) = Cardinality(Applications)

\* C11 witness: two applications carry the same GUID, its fetch failed, the
\* failed result is in the map, one request was made for it, and both
\* applications have their row in the rendered table
C11_Witness ==
    /\ exit = "nil" /\ rendered
    /\ Len(lookups) = 2 /\ lookups[1] = lookups[2] /\ Len(table) = 2
    /\ buildpacks[lookups[1]] \in FetchFailed(AppOfRow(1))
    /\ Count(requests, BuildpackURL(lookups[1])) = 1

====
